---- MODULE Spec2Model ----
(***************************************************************************)
(* Batch generation of hex-head bolts (src/test.py): the dimension table   *)
(* loader, the unused-index sampler, the JSON tracking file, the thread    *)
(* creation retries and the batch driver with its per-bolt loop; and the   *)
(* duplicate check of the finished dataset (src/verify_bolts.py).          *)
(*                                                                         *)
(* Encoding.  Lengths are integers in tenths of a millimetre (7.8 mm is    *)
(* 78), pitches in hundredths (1.25 is 125).  A CSV line is the sequence   *)
(* of its fields as _parse_csv_line splits them; a field that float()      *)
(* rejects is BadField; a blank line is the empty sequence.  Row indices   *)
(* are 0-based as in the code, so column c of row i is c[i + 1].           *)
(***************************************************************************)
EXTENDS Integers, Sequences, FiniteSets, TLC

\* ------------------------------------------------------------------ bounds
\* Rows of the dimension tables the operator can point the run at.
NumRows == 2
\* Largest body diameter (tenths of a mm) the thread specification draws.
MaxDia == 520
\* Largest last_bolt the campaign-arithmetic specification draws.
MaxLastBolt == 1100
\* Most lines after the header in the files the table specification draws.
MaxLines == 3

\* --------------------------------------------------------- program numbers
\* boltCount = 250, "Fixed to 250 bolts per batch"
BatchSize == 250
\* bolts_remaining = 1000 - last_bolt_num
CampaignCap == 1000
\* if current_batch > 4
LastBatch == 4
\* max_attempts = count * 3
AttemptFactor == 3
\* if len(values) >= 6
MinFields == 6

BadField == -1
None == -1
NoPitch == -1

Min(a, b) == IF a <= b THEN a ELSE b
Abs(a) == IF a < 0 THEN 0 - a ELSE a

\* ---------------------------------------------------------- standard sizes
\* self.std_sizes, in tenths of a millimetre, in list order.
std_sizes ==
  <<10, 16, 20, 25, 30, 40, 50, 60, 80, 100, 120, 140, 160, 180, 200, 220,
    240, 270, 300, 330, 360, 390, 420, 450, 480>>

\* self.pitch_map: (size in tenths, coarse pitch in hundredths).
pitch_map ==
  [s \in {10, 16, 20, 25, 30, 40, 50, 60, 80, 100, 120, 140, 160, 180, 200,
          220, 240, 270, 300, 330, 360, 390, 420, 450, 480} |->
     CASE s = 10 -> 25   [] s = 16 -> 35   [] s = 20 -> 40   [] s = 25 -> 45
       [] s = 30 -> 50   [] s = 40 -> 70   [] s = 50 -> 80   [] s = 60 -> 100
       [] s = 80 -> 125  [] s = 100 -> 150 [] s = 120 -> 175 [] s = 140 -> 200
       [] s = 160 -> 200 [] s = 180 -> 250 [] s = 200 -> 250 [] s = 220 -> 250
       [] s = 240 -> 300 [] s = 270 -> 300 [] s = 300 -> 350 [] s = 330 -> 350
       [] s = 360 -> 400 [] s = 390 -> 400 [] s = 420 -> 450 [] s = 450 -> 450
       [] s = 480 -> 500]

StdSizeSet == {std_sizes[k] : k \in 1..Len(std_sizes)}

\* The sizing that rounds down: the largest standard size not above dia, and
\* the smallest standard size for a dia below it.
closest_size_floor(dia) ==
  LET below == {k \in 1..Len(std_sizes) : std_sizes[k] <= dia}
  IN IF below = {} THEN std_sizes[1]
     ELSE std_sizes[CHOOSE k \in below : \A j \in below : j <= k]

\* min(self.std_sizes, key=lambda x: abs(x - dia)): the first entry, in list
\* order, whose distance to dia is minimal.
closest_size(dia) ==
  LET best == CHOOSE k \in 1..Len(std_sizes) :
                /\ \A j \in 1..Len(std_sizes) :
                     Abs(std_sizes[k] - dia) <= Abs(std_sizes[j] - dia)
                /\ \A j \in 1..(k - 1) :
                     Abs(std_sizes[j] - dia) > Abs(std_sizes[k] - dia)
  IN std_sizes[best]

\* self.pitch_map.get(size, default)
pitch_get(size, default) ==
  IF size \in DOMAIN pitch_map THEN pitch_map[size] ELSE default

\* f'M{size}x{pitch}', and f'M{size}' when pitch is NoPitch.
Designation(size, pitch) == [size |-> size, pitch |-> pitch]

\* ------------------------------------------------------- thread creation
\* createThreads that gives up after the first attempt.
createThreads_single(size, ok1, ok2) ==
  [result |-> ok1, tried |-> <<Designation(size, pitch_get(size, 150))>>]

\* Bolt.createThreads.  ok1 and ok2 are the host's answers to the first and
\* to the second threads.add; tried lists the designations handed to the
\* host, in order.  The second attempt is the next smaller standard size when
\* one exists, and the bare designation of the closest size when none does.
createThreads(size, ok1, ok2) ==
  LET first == Designation(size, pitch_get(size, 150))
      available_sizes == {s \in StdSizeSet : s < size}
      new_size == CHOOSE s \in available_sizes : \A t \in available_sizes : t <= s
      second == IF available_sizes # {}
                  THEN Designation(new_size, pitch_get(new_size, 100))
                  ELSE Designation(size, NoPitch)
  IN IF ok1 THEN [result |-> TRUE, tried |-> <<first>>]
     ELSE [result |-> ok2, tried |-> <<first, second>>]

\* ------------------------------------------------------- dimension table
\* BoltDimensions.__init__
NewBoltDimensions ==
  [thread_sizes |-> <<>>, body_diameters |-> <<>>, pitches |-> <<>>,
   head_diameters |-> <<>>, body_lengths |-> <<>>, head_heights |-> <<>>,
   used_indices |-> {}, is_loaded |-> FALSE]

\* The try block of load_from_csv for one line of at least six fields: the
\* appends happen in order and stop at the first field float() rejects, so
\* the columns before it keep the value already appended.
AppendRow(bd, values) ==
  LET bad == {j \in 2..6 : values[j] = BadField}
      stop == IF bad = {} THEN 7 ELSE CHOOSE j \in bad : \A k \in bad : j <= k
  IN [bd EXCEPT
        !.thread_sizes = Append(@, values[1]),
        !.body_diameters = IF stop > 2 THEN Append(@, values[2]) ELSE @,
        !.pitches = IF stop > 3 THEN Append(@, values[3]) ELSE @,
        !.head_diameters = IF stop > 4 THEN Append(@, values[4]) ELSE @,
        !.body_lengths = IF stop > 5 THEN Append(@, values[5]) ELSE @,
        !.head_heights = IF stop > 6 THEN Append(@, values[6]) ELSE @]

\* line_count += 1 is reached only by a line whose five numbers all parse.
IsValidLine(values) ==
  /\ Len(values) >= MinFields
  /\ \A j \in 2..6 : values[j] # BadField

RECURSIVE ReadLines(_, _)
\* The "for line in file" loop: blank lines and lines of fewer than six
\* fields are skipped whole.
ReadLines(bd, lines) ==
  IF lines = <<>> THEN bd
  ELSE LET values == Head(lines)
       IN IF Len(values) >= MinFields
            THEN ReadLines(AppendRow(bd, values), Tail(lines))
            ELSE ReadLines(bd, Tail(lines))

RECURSIVE CountValid(_)
CountValid(lines) ==
  IF lines = <<>> THEN 0
  ELSE (IF IsValidLine(Head(lines)) THEN 1 ELSE 0) + CountValid(Tail(lines))

\* load_from_csv that also empties the used set when it clears the columns.
load_from_csv_clearing(bd, file) ==
  IF ~file.exists THEN [ok |-> FALSE, bd |-> bd]
  ELSE LET cleared == [NewBoltDimensions EXCEPT !.is_loaded = bd.is_loaded]
           read == ReadLines(cleared, file.lines)
           line_count == CountValid(file.lines)
       IN IF file.read_raises THEN [ok |-> FALSE, bd |-> read]
          ELSE [ok |-> line_count > 0,
                bd |-> [read EXCEPT !.is_loaded = line_count > 0]]

\* BoltDimensions.load_from_csv.  file.exists is os.path.exists(file_path);
\* file.lines are the lines after the header that the read hands over, and
\* file.read_raises says whether the read then raises (open fails, or a
\* later chunk of the file cannot be decoded).  A missing file returns False
\* before anything is cleared; a read that raises lands in the outer except
\* clause, which returns False and leaves is_loaded as it was.
load_from_csv(bd, file) ==
  IF ~file.exists THEN [ok |-> FALSE, bd |-> bd]
  ELSE LET cleared == [NewBoltDimensions EXCEPT
                         !.used_indices = bd.used_indices,
                         !.is_loaded = bd.is_loaded]
           read == ReadLines(cleared, file.lines)
           line_count == CountValid(file.lines)
       IN IF file.read_raises THEN [ok |-> FALSE, bd |-> read]
          ELSE [ok |-> line_count > 0,
                bd |-> [read EXCEPT !.is_loaded = line_count > 0]]

\* set_used_indices that drops the indices it is given.
set_used_indices_ignored(bd, indices) == bd

\* BoltDimensions.set_used_indices
set_used_indices(bd, indices) == [bd EXCEPT !.used_indices = indices]

\* range(len(self.body_diameters))
RowIndices(bd) == 0..(Len(bd.body_diameters) - 1)

\* get_random_unused_bolt without self.used_indices.add(index).
get_random_unused_bolt_unmarked(bd) ==
  LET available_indices == RowIndices(bd) \ bd.used_indices
  IN IF ~bd.is_loaded \/ Len(bd.body_diameters) = 0
       THEN {[status |-> "not_loaded", index |-> None, bd |-> bd]}
     ELSE IF available_indices = {}
       THEN {[status |-> "exhausted", index |-> None, bd |-> bd]}
     ELSE {[status |-> "ok", index |-> i, bd |-> bd] : i \in available_indices}

\* get_random_unused_bolt that starts the table over when nothing is left.
get_random_unused_bolt_wrapping(bd) ==
  LET available_indices == RowIndices(bd) \ bd.used_indices
  IN IF ~bd.is_loaded \/ Len(bd.body_diameters) = 0
       THEN {[status |-> "not_loaded", index |-> None, bd |-> bd]}
     ELSE IF available_indices = {}
       THEN {[status |-> "ok", index |-> i,
              bd |-> [bd EXCEPT !.used_indices = {i}]] : i \in RowIndices(bd)}
     ELSE {[status |-> "ok", index |-> i,
            bd |-> [bd EXCEPT !.used_indices = @ \cup {i}]] :
             i \in available_indices}

\* BoltDimensions.get_random_unused_bolt: the outcomes random.choice allows.
\* status "ok" returns index; the two other statuses are the ValueErrors.
get_random_unused_bolt(bd) ==
  LET available_indices == RowIndices(bd) \ bd.used_indices
  IN IF ~bd.is_loaded \/ Len(bd.body_diameters) = 0
       THEN {[status |-> "not_loaded", index |-> None, bd |-> bd]}
     ELSE IF available_indices = {}
       THEN {[status |-> "exhausted", index |-> None, bd |-> bd]}
     ELSE {[status |-> "ok", index |-> i,
            bd |-> [bd EXCEPT !.used_indices = @ \cup {i}]] :
             i \in available_indices}

\* The column reads of Bolt.__init__ after the draw: an index past the end
\* of a column raises IndexError.
BoltInitRaises(bd, index) ==
  \/ index + 1 > Len(bd.head_diameters)
  \/ index + 1 > Len(bd.body_diameters)
  \/ index + 1 > Len(bd.head_heights)
  \/ index + 1 > Len(bd.body_lengths)

\* ---------------------------------------------------------- tracking file
\* What json.load hands back, as notify uses it: keys says whether the
\* object has "last_bolt" and "used_indices"; raised says whether the call
\* raised instead of returning.
DefaultTracking ==
  [raised |-> FALSE, keys |-> TRUE, last_bolt |-> 0, used_indices |-> {}]

AbsentFile == [kind |-> "absent", last_bolt |-> 0, used_indices |-> {}]
UnreadableFile == [kind |-> "unreadable", last_bolt |-> 0, used_indices |-> {}]
MalformedFile == [kind |-> "malformed", last_bolt |-> 0, used_indices |-> {}]
ValidFile(data) ==
  [kind |-> "valid", last_bolt |-> data.last_bolt,
   used_indices |-> data.used_indices]

\* load_tracking_data without the try around open and json.load.
load_tracking_data_uncaught(file) ==
  CASE file.kind = "valid" ->
         [raised |-> FALSE, keys |-> TRUE, last_bolt |-> file.last_bolt,
          used_indices |-> file.used_indices]
    [] file.kind = "malformed" ->
         [raised |-> FALSE, keys |-> FALSE, last_bolt |-> 0,
          used_indices |-> {}]
    [] file.kind = "unreadable" ->
         [raised |-> TRUE, keys |-> FALSE, last_bolt |-> 0,
          used_indices |-> {}]
    [] OTHER -> DefaultTracking

\* load_tracking_data: "absent" fails os.path.exists; "unreadable" makes
\* open or json.load raise, which the except clause turns into the default;
\* "valid" parses to the stored object; "malformed" parses to JSON without
\* the two keys and is returned as it is.
load_tracking_data(file) ==
  CASE file.kind = "valid" ->
         [raised |-> FALSE, keys |-> TRUE, last_bolt |-> file.last_bolt,
          used_indices |-> file.used_indices]
    [] file.kind = "malformed" ->
         [raised |-> FALSE, keys |-> FALSE, last_bolt |-> 0,
          used_indices |-> {}]
    [] OTHER -> DefaultTracking

\* save_tracking_data: the file holds json.dump(data) afterwards.
save_tracking_data(file, data) == ValidFile(data)

\* save_tracking_data cut short when the host process dies: before
\* open(file_path, 'w') the file is as it was; after it the file is truncated
\* and holds none or a part of json.dump's text, which json.load rejects;
\* once the with block has closed the file it holds the whole text.
save_tracking_data_crash(file, data) == {file, UnreadableFile, ValidFile(data)}

\* ---------------------------------------------------------- verify_bolts
\* rows[idx][1:6]: the second to the sixth field of a row, fewer when the
\* row is shorter, none for the empty row csv.reader gives for a blank line.
DimFields(row) == SubSeq(row, 2, Min(6, Len(row)))

\* float(val) raises ValueError for a field of the slice.
DimRaises(row) ==
  \E j \in 1..Len(DimFields(row)) : DimFields(row)[j] = BadField

RECURSIVE ExtractDimensions(_, _)
\* "for idx in used_indices: if idx < len(rows)": the (idx, dim) pairs, in
\* the order of the list; rows are all the lines after the header.
ExtractDimensions(rows, used) ==
  IF used = <<>> THEN <<>>
  ELSE LET idx == Head(used)
           rest == ExtractDimensions(rows, Tail(used))
       IN IF idx < Len(rows)
            THEN <<[idx |-> idx, dim |-> DimFields(rows[idx + 1])]>> \o rest
            ELSE rest

ExtractRaises(rows, used) ==
  \E k \in 1..Len(used) :
     used[k] < Len(rows) /\ DimRaises(rows[used[k] + 1])

RECURSIVE FindDuplicates_forgetful(_, _)
\* The duplicate loop without dim_set.add(dim).
FindDuplicates_forgetful(dimensions, dim_set) ==
  IF dimensions = <<>> THEN <<>>
  ELSE (IF Head(dimensions).dim \in dim_set THEN <<Head(dimensions)>>
                                            ELSE <<>>)
         \o FindDuplicates_forgetful(Tail(dimensions), dim_set)

RECURSIVE FindDuplicates(_, _)
\* "for idx, dim in dimensions": an entry whose dim is already in dim_set
\* goes to duplicates; every dim is added to dim_set.
FindDuplicates(dimensions, dim_set) ==
  IF dimensions = <<>> THEN <<>>
  ELSE (IF Head(dimensions).dim \in dim_set THEN <<Head(dimensions)>>
                                            ELSE <<>>)
         \o FindDuplicates(Tail(dimensions),
                           dim_set \cup {Head(dimensions).dim})

\* verify_bolts.py from "Load tracking data" to the duplicate report.  used
\* is the used_indices list of the tracking file.  The script has no try:
\* a tracking file that cannot be opened or parsed or lacks a key, a table
\* that cannot be read, and a field float() rejects, all end it.
verify_bolts(tracking, file, used) ==
  IF \/ tracking.kind # "valid"
     \/ ~file.exists
     \/ file.read_raises
     \/ ExtractRaises(file.lines, used)
    THEN [status |-> "raised", last_bolt |-> 0, used |-> 0, rows |-> 0,
          dimensions |-> <<>>, duplicates |-> <<>>]
    ELSE LET dimensions == ExtractDimensions(file.lines, used)
         IN [status |-> "reported",
             last_bolt |-> tracking.last_bolt,
             used |-> Len(used),
             rows |-> Len(file.lines),
             dimensions |-> dimensions,
             duplicates |-> FindDuplicates(dimensions, {})]

\* tracking_data["used_indices"] as json.load returns it: the saved set as a
\* list, in the order list(set) gave it at the save.
Orderings(S) ==
  {f \in [1..Cardinality(S) -> S] :
     \A j, k \in 1..Cardinality(S) : j # k => f[j] # f[k]}

\* ----------------------------------------------------------- batch driver
\* The batch plan without min(250, bolts_remaining).
BatchPlan_fullBatch(last_bolt_num) ==
  [current_batch |-> (last_bolt_num \div BatchSize) + 1,
   complete |-> (last_bolt_num \div BatchSize) + 1 > LastBatch,
   bolts_to_create |-> BatchSize,
   start_bolt_num |-> last_bolt_num + 1,
   end_bolt_num |-> last_bolt_num + BatchSize]

\* notify, "Calculate the current batch" to end_bolt_num.
BatchPlan(last_bolt_num) ==
  LET current_batch == (last_bolt_num \div BatchSize) + 1
      bolts_remaining == CampaignCap - last_bolt_num
      bolts_to_create == Min(BatchSize, bolts_remaining)
      start_bolt_num == last_bolt_num + 1
  IN [current_batch |-> current_batch,
      complete |-> current_batch > LastBatch,
      bolts_to_create |-> bolts_to_create,
      start_bolt_num |-> start_bolt_num,
      end_bolt_num |-> start_bolt_num + bolts_to_create - 1]

\* buildBolt without newOcc.deleteMe() after a failed thread creation.
buildBolt_leaking(occs, geometry_ok, thread_result) ==
  IF ~geometry_ok THEN [component |-> FALSE, occurrences |-> (occs + 1) - 1]
  ELSE IF ~thread_result THEN [component |-> FALSE, occurrences |-> occs + 1]
  ELSE [component |-> TRUE, occurrences |-> occs + 1]

\* Bolt.buildBolt, as the driver sees it: whether a component comes back, and
\* the occurrences left in the design.  A geometry step that raises, and a
\* failed thread creation, both delete the occurrence they had added.
buildBolt(occs, geometry_ok, thread_result) ==
  IF ~geometry_ok THEN [component |-> FALSE, occurrences |-> (occs + 1) - 1]
  ELSE IF ~thread_result
    THEN [component |-> FALSE, occurrences |-> (occs + 1) - 1]
  ELSE [component |-> TRUE, occurrences |-> occs + 1]

\* The body of the per-bolt try block once a component came back: export,
\* delete the exported occurrence, count.  c is the record of the counters.
ExportBolt(c, current_bolt_num, export_ok) ==
  [c EXCEPT
     !.export_count = IF export_ok THEN @ + 1 ELSE @,
     !.exported = IF export_ok THEN @ \cup {current_bolt_num} ELSE @,
     !.occurrences = IF export_ok THEN @ - 1 ELSE @,
     !.success_count = @ + 1]

\* The else branch: component is None.
DiscardBolt(c) == [c EXCEPT !.retry_count = @ + 1]

\* return export_count > 0
RunResult(export_count) == export_count > 0

\* notify, "if result:": what the tracking file holds after the run.
UpdateTracking(file, result, end_bolt_num, used) ==
  IF result
    THEN save_tracking_data(file, [last_bolt |-> end_bolt_num,
                                   used_indices |-> used])
    ELSE file

\* ----------------------------------------------------------------- inputs
\* The dimension rows of the tables: three diameters in turn (7.8 mm, 1.0 mm,
\* 12.0 mm), the other fields distinct per row.
RowDia(i) == CASE i % 3 = 1 -> 78 [] i % 3 = 2 -> 10 [] OTHER -> 120
GoodRow(i) == <<i, RowDia(i), 100 + i, 130 + i, 400 + i, 50 + i>>
BlankLine == <<>>
ShortRow == <<77, 60, 100, 100, 300>>
BadRow == <<88, 60, 100, BadField, 300, 40>>

CsvFile(lines) == [exists |-> TRUE, lines |-> lines, read_raises |-> FALSE]
CleanCsv == CsvFile([i \in 1..NumRows |-> GoodRow(i)])
DirtyCsv ==
  CsvFile(<<BlankLine, ShortRow, BadRow>>
            \o [i \in 1..(NumRows - 1) |-> GoodRow(i)])
EmptyCsv == CsvFile(<<BlankLine>>)
MissingCsv == [exists |-> FALSE, lines |-> <<>>, read_raises |-> FALSE]
\* A table whose read raises after its first row.
BrokenCsv == [exists |-> TRUE, lines |-> <<GoodRow(1)>>, read_raises |-> TRUE]
CsvFiles == {CleanCsv, DirtyCsv, EmptyCsv, MissingCsv, BrokenCsv}
\* No load_from_csv call yet.
NoCsv == [exists |-> FALSE, lines |-> <<>>, read_raises |-> FALSE]

\* The tracking file is an operator-supplied path: what it holds when the
\* first run starts is an input.
InitLastBolts == {CampaignCap - 2, CampaignCap - 1, CampaignCap}
InitUsedSets == {{}, {0}, 0..(NumRows - 1)}
TrackingFiles ==
  {AbsentFile, UnreadableFile, MalformedFile}
    \cup {ValidFile([last_bolt |-> l, used_indices |-> u]) :
            l \in InitLastBolts, u \in InitUsedSets}

\* ------------------------------------------------------------------ state
VARIABLES
  tracking_file,     \* the JSON tracking file on disk
  bolt_dimensions,   \* the module-level BoltDimensions instance
  pc,                \* "idle": no run; "loop": inside the per-bolt loop
  outcome,           \* how the latest notify ended
  run,               \* the locals of notify and createAndExportBolts, the
                     \* 'createThreads' input of the dialog among them
  wasCancelled,      \* progressDialog.wasCancelled
  loaded_used,       \* the used_indices notify handed to set_used_indices
  drawn,             \* the indices the draws of this run returned
  draw,              \* status and index of the latest draw of this run
  bolt,              \* the latest Bolt and its thread attempts
  step,              \* how the latest loop iteration ended
  csv_file,          \* the table file at the CSV path given last
  load_result,       \* what that call returned: "none", "ok" or "failed"
  report             \* what the latest run of verify_bolts.py printed

vars ==
  <<tracking_file, bolt_dimensions, pc, outcome, run, wasCancelled,
    loaded_used, drawn, draw, bolt, step, csv_file, load_result, report>>

NoRun ==
  [last_bolt_num |-> 0, count |-> 0, start_bolt_num |-> 0, end_bolt_num |-> 0,
   success_count |-> 0, error_count |-> 0, retry_count |-> 0,
   export_count |-> 0, attempts |-> 0, occurrences |-> 0, exported |-> {},
   create_threads |-> TRUE]
NoDraw == [status |-> "none", index |-> None]
NoThreads == [result |-> FALSE, tried |-> <<>>]
NoBolt == [index |-> None, dia |-> 0, closest_size |-> 0, threads |-> NoThreads]
NoReport ==
  [status |-> "none", last_bolt |-> 0, used |-> 0, rows |-> 0,
   dimensions |-> <<>>, duplicates |-> <<>>]

Init ==
  /\ tracking_file \in TrackingFiles
  /\ bolt_dimensions = NewBoltDimensions
  /\ pc = "idle"
  /\ outcome = "none"
  /\ run = NoRun
  /\ wasCancelled = FALSE
  /\ loaded_used = {}
  /\ drawn = {}
  /\ draw = NoDraw
  /\ bolt = NoBolt
  /\ step = "none"
  /\ csv_file = NoCsv
  /\ load_result = "none"
  /\ report = NoReport

\* The ghosts of a run, as a notify that never reaches the loop leaves them.
ResetRun ==
  /\ run' = NoRun
  /\ wasCancelled' = FALSE
  /\ loaded_used' = {}
  /\ drawn' = {}
  /\ draw' = NoDraw
  /\ bolt' = NoBolt
  /\ step' = "none"

\* notify: the export directory cannot be created, or no CSV path was given.
NotifyConfigError ==
  /\ pc = "idle"
  /\ outcome' = "config_error"
  /\ ResetRun
  /\ UNCHANGED <<tracking_file, bolt_dimensions, pc>>
  /\ UNCHANGED <<csv_file, load_result, report>>

\* Whether notify gets past tracking_data["last_bolt"] and ["used_indices"].
TrackingUsable(tracking_data) == ~tracking_data.raised /\ tracking_data.keys

\* notify: reading the tracking data raises; the outer except clause reports
\* "Failed" and the run is over.
NotifyFailed ==
  /\ pc = "idle"
  /\ ~TrackingUsable(load_tracking_data(tracking_file))
  /\ outcome' = "failed"
  /\ ResetRun
  /\ UNCHANGED <<tracking_file, bolt_dimensions, pc>>
  /\ UNCHANGED <<csv_file, load_result, report>>

\* notify: current_batch > 4, "All 1000 bolts have already been generated".
NotifyCampaignComplete ==
  /\ pc = "idle"
  /\ TrackingUsable(load_tracking_data(tracking_file))
  /\ BatchPlan(load_tracking_data(tracking_file).last_bolt).complete
  /\ outcome' = "complete"
  /\ ResetRun
  /\ UNCHANGED <<tracking_file, bolt_dimensions, pc>>
  /\ UNCHANGED <<csv_file, load_result, report>>

\* notify: load_from_csv returns False.
NotifyCsvFailed ==
  /\ pc = "idle"
  /\ TrackingUsable(load_tracking_data(tracking_file))
  /\ ~BatchPlan(load_tracking_data(tracking_file).last_bolt).complete
  /\ \E csv \in CsvFiles :
       LET loaded == load_from_csv(bolt_dimensions, csv)
       IN /\ ~(loaded.ok /\ loaded.bd.is_loaded)
          /\ bolt_dimensions' = loaded.bd
          /\ csv_file' = csv
  /\ load_result' = "failed"
  /\ UNCHANGED report
  /\ outcome' = "csv_failed"
  /\ ResetRun
  /\ UNCHANGED <<tracking_file, pc>>

\* notify up to the first loop test of createAndExportBolts.
NotifyStart ==
  /\ pc = "idle"
  /\ LET tracking_data == load_tracking_data(tracking_file)
         plan == BatchPlan(tracking_data.last_bolt)
     IN /\ TrackingUsable(tracking_data)
        /\ ~plan.complete
        /\ \E csv \in CsvFiles :
             LET loaded == load_from_csv(bolt_dimensions, csv)
             IN /\ loaded.ok /\ loaded.bd.is_loaded
                /\ bolt_dimensions' =
                     set_used_indices(loaded.bd, tracking_data.used_indices)
                /\ csv_file' = csv
        /\ \E create_threads \in BOOLEAN :
             run' = [NoRun EXCEPT
                       !.last_bolt_num = tracking_data.last_bolt,
                       !.count = plan.bolts_to_create,
                       !.start_bolt_num = plan.start_bolt_num,
                       !.end_bolt_num = plan.end_bolt_num,
                       !.create_threads = create_threads]
        /\ loaded_used' = tracking_data.used_indices
  /\ pc' = "loop"
  /\ outcome' = "running"
  /\ wasCancelled' = FALSE
  /\ drawn' = {}
  /\ draw' = NoDraw
  /\ bolt' = NoBolt
  /\ step' = "none"
  /\ load_result' = "ok"
  /\ UNCHANGED <<tracking_file, report>>

\* The loop test without "success_count < count".
LoopCond_uncounted(r) == r.attempts < r.count * AttemptFactor

\* while success_count < count and attempts < max_attempts
LoopCond(r) ==
  /\ r.success_count < r.count
  /\ r.attempts < r.count * AttemptFactor

\* The operator presses Cancel on the progress dialog.
Cancel ==
  /\ pc = "loop"
  /\ ~wasCancelled
  /\ wasCancelled' = TRUE
  /\ UNCHANGED <<tracking_file, bolt_dimensions, pc, outcome, run,
                 loaded_used, drawn, draw, bolt, step>>
  /\ UNCHANGED <<csv_file, load_result, report>>

\* Bolt.__init__ from the draw's index to threadDesignation.
NewBolt(bd, index) ==
  [index |-> index,
   dia |-> bd.body_diameters[index + 1],
   closest_size |-> closest_size(bd.body_diameters[index + 1]),
   threads |-> NoThreads]

\* One iteration in which Bolt(0, 0) raises because the draw raised: the
\* except clause of the loop counts an error and the loop goes on.
IterDrawRaises ==
  /\ pc = "loop"
  /\ LoopCond(run) /\ ~wasCancelled
  /\ \E d \in get_random_unused_bolt(bolt_dimensions) :
       /\ d.status # "ok"
       /\ bolt_dimensions' = d.bd
       /\ draw' = [status |-> d.status, index |-> d.index]
  /\ run' = [run EXCEPT !.error_count = @ + 1, !.attempts = @ + 1]
  /\ bolt' = NoBolt
  /\ step' = "draw_raised"
  /\ UNCHANGED <<tracking_file, pc, outcome, wasCancelled, loaded_used, drawn>>
  /\ UNCHANGED <<csv_file, load_result, report>>

\* One iteration in which the draw returns an index and a column read of
\* Bolt.__init__ raises IndexError: the index stays used, an error is counted.
IterInitRaises ==
  /\ pc = "loop"
  /\ LoopCond(run) /\ ~wasCancelled
  /\ \E d \in get_random_unused_bolt(bolt_dimensions) :
       /\ d.status = "ok"
       /\ BoltInitRaises(d.bd, d.index)
       /\ bolt_dimensions' = d.bd
       /\ draw' = [status |-> d.status, index |-> d.index]
       /\ drawn' = drawn \cup {d.index}
  /\ run' = [run EXCEPT !.error_count = @ + 1, !.attempts = @ + 1]
  /\ bolt' = NoBolt
  /\ step' = "init_raised"
  /\ UNCHANGED <<tracking_file, pc, outcome, wasCancelled, loaded_used>>
  /\ UNCHANGED <<csv_file, load_result, report>>

\* One iteration in which buildBolt returns None: a geometry step raised, or
\* createThreads returned False.
IterDiscard ==
  /\ pc = "loop"
  /\ LoopCond(run) /\ ~wasCancelled
  /\ \E d \in get_random_unused_bolt(bolt_dimensions) :
     \E geometry_ok, ok1, ok2 \in BOOLEAN :
       /\ d.status = "ok"
       /\ ~BoltInitRaises(d.bd, d.index)
       /\ LET b == NewBolt(d.bd, d.index)
              threads == IF geometry_ok
                           THEN createThreads(b.closest_size, ok1, ok2)
                           ELSE NoThreads
              built == buildBolt(run.occurrences, geometry_ok, threads.result)
          IN /\ ~built.component
             /\ bolt' = [b EXCEPT !.threads = threads]
             /\ run' = [DiscardBolt([run EXCEPT
                                       !.occurrences = built.occurrences])
                          EXCEPT !.attempts = @ + 1]
             /\ step' = IF geometry_ok THEN "thread_failed"
                                       ELSE "geometry_failed"
       /\ bolt_dimensions' = d.bd
       /\ draw' = [status |-> d.status, index |-> d.index]
       /\ drawn' = drawn \cup {d.index}
  /\ UNCHANGED <<tracking_file, pc, outcome, wasCancelled, loaded_used>>
  /\ UNCHANGED <<csv_file, load_result, report>>

\* One iteration in which buildBolt returns the component: export it, delete
\* it when the export worked, count a success either way.
IterBuilt ==
  /\ pc = "loop"
  /\ LoopCond(run) /\ ~wasCancelled
  /\ \E d \in get_random_unused_bolt(bolt_dimensions) :
     \E ok1, ok2, export_ok \in BOOLEAN :
       /\ d.status = "ok"
       /\ ~BoltInitRaises(d.bd, d.index)
       /\ LET b == NewBolt(d.bd, d.index)
              threads == createThreads(b.closest_size, ok1, ok2)
              built == buildBolt(run.occurrences, TRUE, threads.result)
              current_bolt_num == run.start_bolt_num + run.success_count
          IN /\ built.component
             /\ bolt' = [b EXCEPT !.threads = threads]
             /\ run' = [ExportBolt([run EXCEPT
                                      !.occurrences = built.occurrences],
                                   current_bolt_num, export_ok)
                          EXCEPT !.attempts = @ + 1]
             /\ step' = IF export_ok THEN "exported" ELSE "export_failed"
       /\ bolt_dimensions' = d.bd
       /\ draw' = [status |-> d.status, index |-> d.index]
       /\ drawn' = drawn \cup {d.index}
  /\ UNCHANGED <<tracking_file, pc, outcome, wasCancelled, loaded_used>>
  /\ UNCHANGED <<csv_file, load_result, report>>

\* The loop ends (its test fails, or the cancel is seen at the top of an
\* iteration); createAndExportBolts returns and notify finishes.
FinishRun ==
  /\ pc = "loop"
  /\ ~LoopCond(run) \/ wasCancelled
  /\ LET result == RunResult(run.export_count)
     IN /\ tracking_file' =
             UpdateTracking(tracking_file, result, run.end_bolt_num,
                            bolt_dimensions.used_indices)
        /\ outcome' = IF result THEN "saved" ELSE "not_saved"
  /\ pc' = "idle"
  /\ UNCHANGED <<bolt_dimensions, run, wasCancelled, loaded_used, drawn, draw,
                 bolt, step>>
  /\ UNCHANGED <<csv_file, load_result, report>>

\* The host process dies inside the save_tracking_data call of notify: the
\* file is left as the crash found it and everything in memory is gone.
CrashInSave ==
  /\ pc = "loop"
  /\ ~LoopCond(run) \/ wasCancelled
  /\ RunResult(run.export_count)
  /\ tracking_file' \in
       save_tracking_data_crash(tracking_file,
                                [last_bolt |-> run.end_bolt_num,
                                 used_indices |-> bolt_dimensions.used_indices])
  /\ bolt_dimensions' = NewBoltDimensions
  /\ pc' = "idle"
  /\ outcome' = "crashed"
  /\ ResetRun
  /\ csv_file' = NoCsv
  /\ load_result' = "none"
  /\ UNCHANGED report

Next ==
  \/ NotifyConfigError
  \/ NotifyFailed
  \/ NotifyCampaignComplete
  \/ NotifyCsvFailed
  \/ NotifyStart
  \/ Cancel
  \/ IterDrawRaises
  \/ IterInitRaises
  \/ IterDiscard
  \/ IterBuilt
  \/ FinishRun
  \/ CrashInSave

Spec == Init /\ [][Next]_vars

\* ------------------------------------------------------ loop progress
\* The steps createAndExportBolts and the tail of notify take on their own:
\* the handler runs on one thread and goes on to its next statement as soon
\* as the host call it is in returns.  Pressing Cancel and starting a run
\* are up to the operator.
LoopStep ==
  \/ IterDrawRaises
  \/ IterInitRaises
  \/ IterDiscard
  \/ IterBuilt
  \/ FinishRun

\* The runs of a campaign that has a tracking file on disk, in a host that
\* stays up.
InitLive == Init /\ tracking_file.kind \in {"valid", "malformed"}

NextLive ==
  \/ NotifyConfigError
  \/ NotifyFailed
  \/ NotifyCampaignComplete
  \/ NotifyCsvFailed
  \/ NotifyStart
  \/ Cancel
  \/ LoopStep

SpecLive == InitLive /\ [][NextLive]_vars /\ WF_vars(LoopStep)

\* ------------------------------------------------- campaign arithmetic
\* The entry of notify for every last_bolt a tracking file can hold: the
\* same notify actions, started from a file holding any value up to
\* MaxLastBolt, and stopped at the first loop test.
InitArith ==
  /\ tracking_file \in
       {ValidFile([last_bolt |-> l, used_indices |-> {}]) : l \in 0..MaxLastBolt}
  /\ bolt_dimensions = NewBoltDimensions
  /\ pc = "idle"
  /\ outcome = "none"
  /\ run = NoRun
  /\ wasCancelled = FALSE
  /\ loaded_used = {}
  /\ drawn = {}
  /\ draw = NoDraw
  /\ bolt = NoBolt
  /\ step = "none"
  /\ csv_file = NoCsv
  /\ load_result = "none"
  /\ report = NoReport

NextArith ==
  \/ NotifyConfigError
  \/ NotifyCampaignComplete
  \/ NotifyCsvFailed
  \/ NotifyStart

SpecArith == InitArith /\ [][NextArith]_vars

\* ------------------------------------------------------ thread attempts
\* Bolt.__init__'s sizing followed by createThreads, for every body diameter
\* up to MaxDia and every pair of host answers.
SizeAndThread ==
  /\ pc = "idle"
  /\ bolt = NoBolt
  /\ \E dia \in 1..MaxDia : \E ok1, ok2 \in BOOLEAN :
       bolt' = [index |-> 0, dia |-> dia, closest_size |-> closest_size(dia),
                threads |-> createThreads(closest_size(dia), ok1, ok2)]
  /\ UNCHANGED <<tracking_file, bolt_dimensions, pc, outcome, run,
                 wasCancelled, loaded_used, drawn, draw, step>>
  /\ UNCHANGED <<csv_file, load_result, report>>

InitThreads ==
  /\ tracking_file = AbsentFile
  /\ bolt_dimensions = NewBoltDimensions
  /\ pc = "idle"
  /\ outcome = "none"
  /\ run = NoRun
  /\ wasCancelled = FALSE
  /\ loaded_used = {}
  /\ drawn = {}
  /\ draw = NoDraw
  /\ bolt = NoBolt
  /\ step = "none"
  /\ csv_file = NoCsv
  /\ load_result = "none"
  /\ report = NoReport

SpecThreads == InitThreads /\ [][SizeAndThread]_vars

\* -------------------------------------------------- table file readers
\* load_from_csv and verify_bolts.py, each run once on every table file of
\* up to MaxLines lines: blank lines, a row of five fields, a row with a
\* field that is no number, and two good rows that may repeat.
LineKinds == {BlankLine, ShortRow, BadRow, GoodRow(1), GoodRow(2)}

TableFiles ==
  {MissingCsv}
    \cup {[exists |-> TRUE, lines |-> l, read_raises |-> r] :
            l \in UNION {[1..n -> LineKinds] : n \in 0..MaxLines},
            r \in BOOLEAN}

TableUsedSets ==
  {{}, {0}, {1}, {0, 1}, {0, MaxLines - 1}, 0..(MaxLines - 1)}

\* bolt_dimensions.load_from_csv(csv_path), on its own.
LoadTable ==
  /\ pc = "idle"
  /\ load_result = "none"
  /\ LET loaded == load_from_csv(bolt_dimensions, csv_file)
     IN /\ bolt_dimensions' = loaded.bd
        /\ load_result' = IF loaded.ok THEN "ok" ELSE "failed"
  /\ UNCHANGED <<tracking_file, pc, outcome, run, wasCancelled, loaded_used,
                 drawn, draw, bolt, step, csv_file, report>>

\* One run of verify_bolts.py on the tracking file and the table file.
Verify ==
  /\ pc = "idle"
  /\ report = NoReport
  /\ \E used \in Orderings(tracking_file.used_indices) :
       report' = verify_bolts(tracking_file, csv_file, used)
  /\ UNCHANGED <<tracking_file, bolt_dimensions, pc, outcome, run,
                 wasCancelled, loaded_used, drawn, draw, bolt, step,
                 csv_file, load_result>>

\* The table before the load: a fresh BoltDimensions, or one an earlier run
\* of the session loaded, with the used set that run left.
InitTable ==
  /\ csv_file \in TableFiles
  /\ \E u \in TableUsedSets :
       /\ tracking_file \in
            {AbsentFile,
             ValidFile([last_bolt |-> Cardinality(u), used_indices |-> u])}
       /\ bolt_dimensions \in
            {set_used_indices(NewBoltDimensions, u),
             set_used_indices(load_from_csv(NewBoltDimensions, CleanCsv).bd,
                              u)}
  /\ pc = "idle"
  /\ outcome = "none"
  /\ run = NoRun
  /\ wasCancelled = FALSE
  /\ loaded_used = {}
  /\ drawn = {}
  /\ draw = NoDraw
  /\ bolt = NoBolt
  /\ step = "none"
  /\ load_result = "none"
  /\ report = NoReport

NextTable == LoadTable \/ Verify

SpecTable == InitTable /\ [][NextTable]_vars

\* ================================================================ claims
\* A step of the per-bolt loop that calls Bolt(0, 0), and with it the draw.
DrawStep == pc = "loop" /\ run'.attempts = run.attempts + 1

\* A batch run has run its loop and returned.
RunExited == pc = "idle" /\ outcome \in {"saved", "not_saved"}

AllRowsUsed(bd) == RowIndices(bd) \subseteq bd.used_indices

\* C1: at the exit of every batch run the persisted last_bolt is its value at
\* run entry plus the number of bolts that succeeded in the run.  Stated for
\* the runs in which every counted success was also exported, so that the
\* number of successes is not in question.
C1_LastBoltAdvancesBySuccesses ==
  (RunExited /\ run.export_count = run.success_count)
    => load_tracking_data(tracking_file).last_bolt
         = run.last_bolt_num + run.success_count

\* C2: after set_used_indices(U) no draw of the run returns an index of U,
\* and once the used set covers every row a draw fails and returns no index.
C2_NoRedrawOfLoaded ==
  [][DrawStep =>
       /\ draw'.status = "ok" => draw'.index \notin loaded_used
       /\ AllRowsUsed(bolt_dimensions) =>
            draw'.status = "exhausted" /\ draw'.index = None]_vars

\* C2 witness: a run that loaded a non-empty used set drew an unused row and
\* then found the table exhausted.
C2_Witness ==
  /\ pc = "loop"
  /\ loaded_used # {}
  /\ drawn # {}
  /\ draw.status = "exhausted"

\* C3: the indices the draws of a run return are rows of the table and
\* pairwise distinct: each draw returns an index no earlier draw returned.
C3_DrawsDistinctInRange ==
  [][(DrawStep /\ draw'.status = "ok") =>
       /\ draw'.index \in RowIndices(bolt_dimensions)
       /\ draw'.index \notin drawn
       /\ drawn' = drawn \cup {draw'.index}]_vars

\* C3 witness: one run has drawn two indices.
C3_Witness == pc = "loop" /\ Cardinality(drawn) >= 2

\* C4: at the exit of every batch run that sampled an index, the persisted
\* used_indices holds every index sampled in the run.
C4_SampledIndicesPersisted ==
  (RunExited /\ drawn # {})
    => /\ tracking_file.kind = "valid"
       /\ drawn \subseteq tracking_file.used_indices

\* The standard size just below size, for a size that is not the smallest.
PrevStd(size) ==
  LET k == CHOOSE j \in 2..Len(std_sizes) : std_sizes[j] = size
  IN std_sizes[k - 1]

ExactDesignation(size) == [size |-> size, pitch |-> pitch_map[size]]

C6_NoDrawAfterExhaustion ==
  [][(pc = "loop" /\ draw.status = "exhausted")
       => run'.attempts = run.attempts]_vars

\* C7: with a loaded table whose rows are all used, a draw fails with the
\* exhaustion error, returns no index and leaves the used set as it was.
C7_ExhaustedDrawFails ==
  [][(/\ DrawStep
      /\ bolt_dimensions.is_loaded
      /\ Len(bolt_dimensions.body_diameters) > 0
      /\ AllRowsUsed(bolt_dimensions))
       => /\ draw'.status = "exhausted"
          /\ draw'.index = None
          /\ bolt_dimensions'.used_indices = bolt_dimensions.used_indices
          /\ drawn' = drawn
          /\ step' = "draw_raised"]_vars

\* C7 witness: a draw on a fully used table of NumRows rows has failed.
C7_Witness ==
  /\ pc = "loop"
  /\ step = "draw_raised"
  /\ draw.status = "exhausted"
  /\ AllRowsUsed(bolt_dimensions)

\* C8: when thread creation fails for a bolt, its occurrence is deleted, the
\* success and export counts stay, the discard count goes up by one, and the
\* bolt's index, like every index drawn in the run, stays in the used set.
C8_ThreadFailureDiscards ==
  /\ [](pc = "loop" => drawn \subseteq bolt_dimensions.used_indices)
  /\ [][(DrawStep /\ step' = "thread_failed")
          => /\ ~bolt'.threads.result
             /\ run'.occurrences = run.occurrences
             /\ run'.success_count = run.success_count
             /\ run'.export_count = run.export_count
             /\ run'.exported = run.exported
             /\ run'.retry_count = run.retry_count + 1
             /\ draw'.index \in bolt_dimensions'.used_indices]_vars

\* C8 witness: a bolt was discarded for its threads, and a later draw of the
\* same run happened with its index still used.
C8_Witness ==
  /\ pc = "loop"
  /\ run.retry_count >= 1
  /\ step = "thread_failed"
  /\ run.attempts >= 2
  /\ bolt.index \in bolt_dimensions.used_indices

\* C9: for last_bolt in 0..999 the run creates min(250, 1000 - last_bolt)
\* bolts numbered last_bolt + 1 to last_bolt + bolts_to_create <= 1000; for
\* last_bolt >= 1000 it ends as campaign complete, with no bolt created and
\* the tracking file as it was.
C9_BatchArithmetic ==
  /\ [](LET last == load_tracking_data(tracking_file).last_bolt
        IN /\ outcome = "running" =>
                /\ last \in 0..999
                /\ run.last_bolt_num = last
                /\ run.count = (IF last <= 750 THEN 250 ELSE 1000 - last)
                /\ run.start_bolt_num = last + 1
                /\ run.end_bolt_num = last + run.count
                /\ run.end_bolt_num <= 1000
           /\ last >= 1000 =>
                /\ outcome \in {"none", "config_error", "complete"}
                /\ pc = "idle"
                /\ run = NoRun
           /\ outcome = "complete" => last >= 1000)
  /\ [][outcome' = "complete" /\ outcome # "complete"
          => tracking_file' = tracking_file /\ pc' = "idle"]_vars

\* C9 witness: last_bolt = 760 gives 240 bolts, 761 to 1000.
C9_Witness ==
  /\ outcome = "running"
  /\ run.last_bolt_num = 760
  /\ run.count = 240
  /\ run.start_bolt_num = 761
  /\ run.end_bolt_num = 1000

\* C10: load_tracking_data never raises, and a run whose tracking file is
\* absent or unreadable is not ended by the load: when it reaches the loop
\* it is a fresh campaign (last_bolt 0, no used index, bolts from 1).
C10_LoadFallsBackToDefault ==
  /\ [](~load_tracking_data(tracking_file).raised)
  /\ [][(pc = "idle" /\ tracking_file.kind \in {"absent", "unreadable"})
          => /\ outcome' \notin {"failed", "complete"}
             /\ pc' = "loop" =>
                  /\ run'.last_bolt_num = 0
                  /\ run'.start_bolt_num = 1
                  /\ loaded_used' = {}
                  /\ bolt_dimensions'.used_indices = {}]_vars

\* C10 witness: a run started from an unreadable tracking file is creating
\* bolt 1 of a fresh campaign.
C10_Witness ==
  /\ pc = "loop"
  /\ tracking_file.kind = "unreadable"
  /\ run.last_bolt_num = 0
  /\ run.start_bolt_num = 1
  /\ bolt_dimensions.used_indices = {}

\* C11: save_tracking_data is crash-atomic: when the process dies at any
\* point of a save, the next load of the tracking file gives the data the
\* file held before the save or the data being saved, never the default in
\* place of either.
C11_SaveIsCrashAtomic ==
  [][(pc = "loop" /\ outcome' = "crashed")
       => load_tracking_data(tracking_file')
            \in {load_tracking_data(tracking_file),
                 load_tracking_data(
                   ValidFile([last_bolt |-> run.end_bolt_num,
                              used_indices |->
                                bolt_dimensions.used_indices]))}]_vars

\* The load_from_csv call of the table specification has returned.
LoadDone == load_result # "none"

HasValidLine(file) ==
  \E k \in 1..Len(file.lines) :
     /\ Len(file.lines[k]) >= 6
     /\ \A j \in 2..6 : file.lines[k][j] # BadField

HasSkippedLine(file) ==
  \E k \in 1..Len(file.lines) :
     \/ Len(file.lines[k]) < 6
     \/ \E j \in 2..6 : file.lines[k][j] = BadField

\* C12: load_from_csv returns false only if the file does not exist or zero
\* valid rows were parsed; short rows and rows with a non-numeric field do
\* not fail the load; and no call changes the used-index set.
C12_FailsOnlyMissingOrNoValidRow ==
  /\ [](LoadDone =>
          (load_result = "failed"
             <=> (~csv_file.exists \/ ~HasValidLine(csv_file))))
  /\ [][load_result' # load_result =>
          bolt_dimensions'.used_indices = bolt_dimensions.used_indices]_vars

\* C12 as amended: load_from_csv returns false only if the file does not
\* exist, reading it raises, or zero valid rows were parsed; short rows and
\* rows with a non-numeric field do not fail the load; and no call changes
\* the used-index set.
C12_FailsOnlyMissingUnreadableOrNoValidRow ==
  /\ [](LoadDone =>
          (load_result = "failed"
             <=> (\/ ~csv_file.exists
                  \/ csv_file.read_raises
                  \/ ~HasValidLine(csv_file))))
  /\ [][load_result' # load_result =>
          bolt_dimensions'.used_indices = bolt_dimensions.used_indices]_vars

\* C12 witness: a load with a non-empty used set returned false on a file
\* that holds a skipped row and a valid row and whose read raised.
C12_Witness ==
  /\ load_result = "failed"
  /\ csv_file.exists /\ csv_file.read_raises
  /\ HasValidLine(csv_file) /\ HasSkippedLine(csv_file)
  /\ bolt_dimensions.used_indices # {}
  /\ Len(bolt_dimensions.body_diameters) > 0

\* C13: at the end of the per-bolt loop the number of mesh files written in
\* the run equals the success count, the files are bolt_<start_bolt_num> to
\* bolt_<start_bolt_num + success_count - 1>, and no model of a counted bolt
\* is left in the session.
C13_FilesMatchSuccessCount ==
  RunExited =>
    /\ run.export_count = run.success_count
    /\ Cardinality(run.exported) = run.success_count
    /\ run.exported =
         run.start_bolt_num..(run.start_bolt_num + run.success_count - 1)
    /\ run.occurrences = 0

\* The dimension tuples among the used indices the verifier inspected.
DistinctDims ==
  {report.dimensions[k].dim : k \in 1..Len(report.dimensions)}

\* The pairs of inspected entries with identical dimension tuples.
EqualPairs ==
  {p \in (1..Len(report.dimensions)) \X (1..Len(report.dimensions)) :
     p[1] < p[2] /\ report.dimensions[p[1]].dim = report.dimensions[p[2]].dim}

\* C14: the number of duplicates the verifier reports is the number of used
\* indices it inspected minus the number of distinct dimension tuples among
\* them; with exactly two indices of identical tuples it reports exactly one.
C14_DuplicateCount ==
  report.status = "reported" =>
    /\ Len(report.duplicates)
         = Len(report.dimensions) - Cardinality(DistinctDims)
    /\ Cardinality(EqualPairs) = 1 => Len(report.duplicates) = 1

\* C14 witness: three used indices were inspected, two of them with the same
\* tuple, and one duplicate was reported.
C14_Witness ==
  /\ report.status = "reported"
  /\ Len(report.dimensions) = 3
  /\ Cardinality(EqualPairs) = 1
  /\ Len(report.duplicates) = 1

\* The coarse pitches of the standard table, as pairs of size and pitch.
CoarsePitch ==
  {<<10, 25>>, <<16, 35>>, <<20, 40>>, <<25, 45>>, <<30, 50>>, <<40, 70>>,
   <<50, 80>>, <<60, 100>>, <<80, 125>>, <<100, 150>>, <<120, 175>>,
   <<140, 200>>, <<160, 200>>, <<180, 250>>, <<200, 250>>, <<220, 250>>,
   <<240, 300>>, <<270, 300>>, <<300, 350>>, <<330, 350>>, <<360, 400>>,
   <<390, 400>>, <<420, 450>>, <<450, 450>>, <<480, 500>>}

\* C15: for every raw body diameter the chosen standard size is one of the
\* 25 standard sizes at minimal absolute distance from the diameter, the
\* pitch is the coarse pitch of that size (never the default), and the
\* designation is M<size>x<pitch>; 7.8 gives size 8, pitch 1.25, M8x1.25.
C15_ClosestStandardSize ==
  bolt.threads.tried # <<>> =>
    /\ Cardinality(StdSizeSet) = 25
    /\ bolt.closest_size \in StdSizeSet
    /\ \A s \in StdSizeSet :
         Abs(bolt.closest_size - bolt.dia) <= Abs(s - bolt.dia)
    /\ <<bolt.threads.tried[1].size, bolt.threads.tried[1].pitch>>
         \in CoarsePitch
    /\ bolt.threads.tried[1].size = bolt.closest_size
    /\ bolt.dia = 78 =>
         bolt.threads.tried[1] = [size |-> 80, pitch |-> 125]

\* C15 witness: a body diameter of 7.8 was sized to 8 and M8x1.25 was the
\* designation handed to the host.
C15_Witness ==
  /\ bolt.dia = 78
  /\ bolt.closest_size = 80
  /\ bolt.threads.tried # <<>>
  /\ bolt.threads.tried[1] = [size |-> 80, pitch |-> 125]

\* C16: when the operator has switched the createThreads input off, the
\* batch driver attempts no thread creation and discards no bolt for a
\* failed thread creation.
C16_FlagOffNoThreads ==
  [][(DrawStep /\ ~run.create_threads)
       => /\ bolt'.threads.tried = <<>>
          /\ step' # "thread_failed"]_vars

\* C17: after every checkpoint save, over any sequence of batch runs, the
\* saved last_bolt equals the number of entries of the saved used_indices.
\* Stated for the saves of runs that found the two equal at their entry.
C17_LastBoltEqualsUsedCount ==
  (/\ pc = "idle"
   /\ outcome = "saved"
   /\ run.last_bolt_num = Cardinality(loaded_used))
    => tracking_file.last_bolt = Cardinality(tracking_file.used_indices)

\* The rows of a table file that load_from_csv counts, in file order.
RECURSIVE ValidRows(_)
ValidRows(lines) ==
  IF lines = <<>> THEN <<>>
  ELSE (IF /\ Len(Head(lines)) >= 6
           /\ \A j \in 2..6 : Head(lines)[j] # BadField
          THEN <<Head(lines)>> ELSE <<>>) \o ValidRows(Tail(lines))

\* C18: after load_from_csv the six columns have the same length, the number
\* of valid rows, and position i of every column holds a field of the i-th
\* valid row of the file: a skipped row contributes to no column.  Stated
\* for the loads that returned true.
C18_ColumnsAligned ==
  load_result = "ok" =>
    LET rows == ValidRows(csv_file.lines)
        bd == bolt_dimensions
    IN /\ Len(bd.thread_sizes) = Len(rows)
       /\ Len(bd.body_diameters) = Len(rows)
       /\ Len(bd.pitches) = Len(rows)
       /\ Len(bd.head_diameters) = Len(rows)
       /\ Len(bd.body_lengths) = Len(rows)
       /\ Len(bd.head_heights) = Len(rows)
       /\ \A i \in 1..Len(rows) :
            /\ bd.thread_sizes[i] = rows[i][1]
            /\ bd.body_diameters[i] = rows[i][2]
            /\ bd.pitches[i] = rows[i][3]
            /\ bd.head_diameters[i] = rows[i][4]
            /\ bd.body_lengths[i] = rows[i][5]
            /\ bd.head_heights[i] = rows[i][6]

\* The per-bolt loop has ended and createAndExportBolts returns.
LoopEnds == pc = "loop" /\ pc' = "idle"

\* C19: the per-bolt loop always terminates, after at most 3 x batch_size
\* iterations and with success_count <= batch_size; it ends exactly when
\* success_count has reached batch_size, the attempts have reached the cap,
\* or a cancel is seen at the start of an iteration; after a cancel is seen
\* no index is sampled and no count changes.
C19_LoopTerminates ==
  /\ [](pc = "loop" =>
          /\ run.count \in 1..250
          /\ run.attempts <= 3 * run.count
          /\ run.success_count <= run.count)
  /\ [][LoopEnds <=>
          (/\ pc = "loop"
           /\ \/ run.success_count = run.count
              \/ run.attempts = 3 * run.count
              \/ wasCancelled
           /\ <<pc, run, outcome>>' # <<pc, run, outcome>>)]_vars
  /\ [][(pc = "loop" /\ wasCancelled) =>
          /\ run' = run
          /\ drawn' = drawn
          /\ bolt_dimensions' = bolt_dimensions]_vars
  /\ (pc = "loop" ~> pc = "idle")

\* C19 witness: a run that was not cancelled ended at the attempt cap, short
\* of its batch size.
C19_Witness ==
  /\ RunExited
  /\ ~wasCancelled
  /\ run.attempts = 3 * run.count
  /\ run.success_count < run.count

\* The dimension tuple of row i as load_from_csv stored it.
LoaderTuple(bd, i) ==
  <<bd.body_diameters[i + 1], bd.pitches[i + 1], bd.head_diameters[i + 1],
    bd.body_lengths[i + 1], bd.head_heights[i + 1]>>

\* The indices the generator can have used: rows present in every column.
StoredRows(bd) ==
  {i \in RowIndices(bd) :
     /\ i < Len(bd.pitches)
     /\ i < Len(bd.head_diameters)
     /\ i < Len(bd.body_lengths)
     /\ i < Len(bd.head_heights)}

\* C20: for every used index i the dimension tuple the verifier inspects is
\* the tuple of the row load_from_csv stored at index i, for every table
\* file, also one with blank or skipped rows.
C20_VerifierReadsLoaderRows ==
  (load_result = "ok" /\ report.status = "reported") =>
    \A i \in tracking_file.used_indices \cap StoredRows(bolt_dimensions) :
      \E k \in 1..Len(report.dimensions) :
         /\ report.dimensions[k].idx = i
         /\ report.dimensions[k].dim = LoaderTuple(bolt_dimensions, i)
====
